---- MODULE Spec2Model ----
(***************************************************************************)
(* Model of gemini_batch.py: the identifier extractor, the name resolver,  *)
(* the ingestion pipeline (process_files_from_list) and the batch analyzer *)
(* (analyze_pdfs).  Python strings are sequences of one-character strings. *)
(***************************************************************************)
EXTENDS Integers, Sequences, FiniteSets, TLC

VARIABLES
    \* process_files_from_list
    pc,                 \* position in the function
    drive_service,      \* FALSE: the service object is None
    file_list,          \* the links
    remote,             \* display names of the files gemini_client.files.list() yields
    list_pos,           \* files yielded so far
    list_failed,        \* the listing raised
    gemini_files_map,   \* display name -> remote file
    idx,                \* 1-based position of `link` in file_list
    file_name,          \* local variable; keeps its value across iterations
    temp_file_path,     \* local variable
    staging,            \* temporary files that exist on disk
    chunks,             \* next_chunk() calls of the download in progress
    pending,            \* exception raised inside an except clause, if any
    uploaded_pdfs,      \* the result list
    calls,              \* collaborator calls issued, in order
    \* analyze_pdfs
    an_pc, an_in, an_i, all_responses, an_log, saved,
    \* extract_student_name and extract_file_id called on their own
    nm_pc, nm_text, nm_out, nm_again,
    id_pc, id_link, id_out

plVars == <<pc, drive_service, file_list, remote, list_pos, list_failed,
            gemini_files_map, idx, file_name, temp_file_path, staging, chunks,
            pending, uploaded_pdfs, calls>>
anVars == <<an_pc, an_in, an_i, all_responses, an_log, saved>>
nmVars == <<nm_pc, nm_text, nm_out, nm_again>>
idVars == <<id_pc, id_link, id_out>>
vars == <<plVars, anVars, nmVars, idVars>>

\* ---------------------------------------------------------------- bounds
MaxNameLen == 4
MaxFrags == 3
MaxFiles == 2
MaxRemote == 2
MaxChunks == 2
MaxRecs == 3

\* ------------------------------------------------------- Python values
None == <<"None">>

Lower == {"a","b","c","d","e","f","g","h","i","j","k","l","m",
          "n","o","p","q","r","s","t","u","v","w","x","y","z"}
Upper == {"A","B","C","D","E","F","G","H","I","J","K","L","M",
          "N","O","P","Q","R","S","T","U","V","W","X","Y","Z"}
Digits == {"0","1","2","3","4","5","6","7","8","9"}

\* str.isalpha / str.isdigit / str.isspace on one character
IsAlphaChar(c) == c \in Lower \cup Upper
IsDigitChar(c) == c \in Digits
IsSpaceChar(c) == c \in {" "}

\* str.isalpha(), str.isalnum() on a whole string: false on the empty string
isalpha(s) == Len(s) > 0 /\ \A i \in 1..Len(s) : IsAlphaChar(s[i])
isalnum(s) == Len(s) > 0 /\ \A i \in 1..Len(s) : IsAlphaChar(s[i]) \/ IsDigitChar(s[i])
anydigit(s) == \E i \in 1..Len(s) : IsDigitChar(s[i])

\* str.strip(): drop leading and trailing whitespace
RECURSIVE lstrip(_)
lstrip(s) == IF Len(s) > 0 /\ IsSpaceChar(s[1]) THEN lstrip(Tail(s)) ELSE s

RECURSIVE rstrip(_)
rstrip(s) == IF Len(s) > 0 /\ IsSpaceChar(s[Len(s)])
             THEN rstrip(SubSeq(s, 1, Len(s) - 1)) ELSE s

strip(s) == rstrip(lstrip(s))

\* " ".join(parts)
RECURSIVE join(_)
join(parts) == IF Len(parts) = 0 THEN <<>>
               ELSE IF Len(parts) = 1 THEN parts[1]
               ELSE parts[1] \o <<" ">> \o join(Tail(parts))

\* --------------------------------------------------- extract_student_name
\* mutant: `-` is not a delimiter
IsDelim_no_dash(c) == c \in {"_"} \/ IsSpaceChar(c)

\* the character class [_\s-]
IsDelim(c) == c \in {"_", "-"} \/ IsSpaceChar(c)

\* re.split(r'[_\s-]+', text): cut at every maximal run of delimiters; a
\* leading or trailing run leaves an empty string at that end
RECURSIVE resplit(_, _, _)
resplit(s, cur, out) ==
    IF Len(s) = 0 THEN Append(out, cur)
    ELSE IF IsDelim(s[1])
         THEN IF Len(s) > 1 /\ IsDelim(s[2])
              THEN resplit(Tail(s), cur, out)
              ELSE resplit(Tail(s), <<>>, Append(out, cur))
         ELSE resplit(Tail(s), Append(cur, s[1]), out)

re_split(s) == resplit(s, <<>>, <<>>)

\* text.rindex(')'): 0 stands for ValueError
rindex(s) == IF \E i \in 1..Len(s) : s[i] = ")"
             THEN CHOOSE i \in 1..Len(s) :
                      s[i] = ")" /\ \A j \in (i+1)..Len(s) : s[j] # ")"
             ELSE 0

processed_text(text) ==
    IF rindex(text) = 0 THEN text
    ELSE SubSeq(text, rindex(text) + 1, Len(text))

\* the test that ends the loop over parts
IsIdPart(part) == isalnum(part) /\ ~isalpha(part) /\ anydigit(part)

RECURSIVE name_parts(_, _)
name_parts(parts, acc) ==
    IF Len(parts) = 0 THEN acc
    ELSE IF IsIdPart(parts[1]) THEN acc
    ELSE IF Len(parts[1]) > 0 THEN name_parts(Tail(parts), Append(acc, parts[1]))
    ELSE name_parts(Tail(parts), acc)

joined_name(text) == strip(join(name_parts(re_split(processed_text(text)), <<>>)))

\* mutant: the first character is dropped whether or not it is alphabetic
drop_leading_always(full_name) ==
    IF Len(full_name) > 0 THEN strip(Tail(full_name)) ELSE full_name

\* "Remove any leading non-alpha characters": one character is removed
drop_leading(full_name) ==
    IF Len(full_name) > 0 /\ ~IsAlphaChar(full_name[1])
    THEN strip(Tail(full_name)) ELSE full_name

extract_student_name(text) ==
    LET full_name == drop_leading(joined_name(text))
    IN IF Len(full_name) > 0 THEN full_name ELSE None

\* ------------------------------------------------------- extract_file_id
Prefixes == { <<"f","i","l","e","/","d","/">>,
              <<"o","p","e","n","?","i","d","=">>,
              <<"u","c","?","i","d","=">> }

\* mutant: the class without `-` and `_`
IsIdChar_alnum(c) == c \in Lower \cup Upper \cup Digits

\* the character class [a-zA-Z0-9-_]
IsIdChar(c) == c \in Lower \cup Upper \cup Digits \cup {"-", "_"}

StartsWithAt(s, p, pre) ==
    /\ p + Len(pre) - 1 <= Len(s)
    /\ \A k \in 1..Len(pre) : s[p + k - 1] = pre[k]

\* greedy [..]+ : the end of the run of identifier characters starting at p
\* (p - 1 when there is none)
RECURSIVE run_end(_, _)
run_end(s, p) == IF p <= Len(s) /\ IsIdChar(s[p]) THEN run_end(s, p + 1) ELSE p - 1

\* the match of the pattern attempted at position p: <<>> when it fails
match_at(s, p) ==
    IF \E pre \in Prefixes : StartsWithAt(s, p, pre)
    THEN LET pre == CHOOSE q \in Prefixes : StartsWithAt(s, p, q)
             b == p + Len(pre)
             e == run_end(s, b)
         IN IF e >= b THEN SubSeq(s, b, e) ELSE <<>>
    ELSE <<>>

\* re.search: positions are tried from the left
RECURSIVE re_search(_, _)
re_search(s, p) ==
    IF p > Len(s) THEN None
    ELSE IF match_at(s, p) # <<>> THEN match_at(s, p)
    ELSE re_search(s, p + 1)

extract_file_id(link) == re_search(link, 1)

\* ------------------------------------------------------ input alphabets
NameAlphabet == {"a", "1", "_", " ", "-", ")", "!"}

RECURSIVE StringsUpTo(_, _)
StringsUpTo(A, n) ==
    IF n = 0 THEN {<<>>}
    ELSE LET shorter == StringsUpTo(A, n - 1)
         IN shorter \cup {Append(s, c) : s \in shorter, c \in A}

NameInputs == StringsUpTo(NameAlphabet, MaxNameLen)

LinkFrags == Prefixes \cup { <<"a">>, <<"Z">>, <<"9">>, <<"-">>, <<"_">>,
                             <<"/">>, <<"?">>, <<"i","d","=">> }

RECURSIVE Concats(_)
Concats(n) ==
    IF n = 0 THEN {<<>>}
    ELSE LET shorter == Concats(n - 1)
         IN shorter \cup {s \o f : s \in shorter, f \in LinkFrags}

LinkInputs == Concats(MaxFrags)

\* ------------------------------------------------ process_files_from_list
Unbound == <<"unbound">>            \* a local variable not assigned yet
OtherError == <<"Exception">>      \* an exception analyze_pdfs catches last
\* outcome of a collaborator call that raised; `except HttpError` and
\* `except Exception` differ only in the message they print
Failed == <<"error">>
Ok == <<"ok">>
NoPath == 0                         \* temp_file_path = None
UnknownStudent == <<"U","n","k","n","o","w","n"," ","S","t","u","d","e","n","t">>

\* display names the stores can hold, and the links of a batch
DisplayNames == { <<"a">>, <<"1">> }
PipelineLinks == { <<"u","c","?","i","d","=","a">>,
                   <<"f","i","l","e","/","d","/","Z","/">>,
                   <<"i","d","=","a">> }

RECURSIVE SeqsUpTo(_, _)
SeqsUpTo(S, n) ==
    IF n = 0 THEN {<<>>}
    ELSE LET shorter == SeqsUpTo(S, n - 1)
         IN shorter \cup {Append(q, x) : q \in shorter, x \in S}

EmptyMap == [n \in {} |-> None]

\* gemini_files_map[f.display_name] = f
map_put(map, name, f) ==
    [n \in DOMAIN map \cup {name} |-> IF n = name THEN f ELSE map[n]]

\* mutant: the lookup never finds the name
in_map_never(name, map) == FALSE

\* file_name in gemini_files_map
in_map(name, map) == name \in DOMAIN map

Listed(k) == [kind |-> "listed", n |-> k]        \* k-th file of the listing
Uploaded(i) == [kind |-> "uploaded", n |-> i]    \* result of the upload of item i

file_id_of(i) == extract_file_id(file_list[i])

student_name_of(name) ==
    IF extract_student_name(name) = None THEN UnknownStudent
    ELSE extract_student_name(name)

\* the dict appended to uploaded_pdfs
FileRecord(i, name, f) ==
    [file_id |-> file_id_of(i), file_name |-> name,
     student_name |-> student_name_of(name), gemini_file |-> f]

Call(op, i, res) == [op |-> op, item |-> i, res |-> res]

\* evaluating `file_name or link` in an except clause raises UnboundLocalError
\* when file_name was never assigned
handler_raises(name) == name = Unbound

\* mutant: the uploaded file is added to the index
index_after_upload_cached(map, name, f) == map_put(map, name, f)

\* the upload branch assigns gemini_file only: gemini_files_map is not written
index_after_upload(map, name, f) == map

\* mutant: the temporary file is left on disk
cleanup_never(files, path) == files

\* finally: if temp_file_path and os.path.exists(temp_file_path): os.remove(...)
cleanup(files, path) ==
    IF path # NoPath /\ path \in files THEN files \ {path} ELSE files

InitPipeline ==
    /\ pc = "start"
    /\ drive_service \in BOOLEAN
    /\ file_list \in SeqsUpTo(PipelineLinks, MaxFiles)
    /\ remote \in SeqsUpTo(DisplayNames, MaxRemote)
    /\ list_pos = 0
    /\ list_failed = FALSE
    /\ gemini_files_map = EmptyMap
    /\ idx = 0
    /\ file_name = Unbound
    /\ temp_file_path = NoPath
    /\ staging = {}
    /\ chunks = 0
    /\ pending = FALSE
    /\ uploaded_pdfs = <<>>
    /\ calls = <<>>

\* if not drive_service: return [] ; if not file_list: return []
ReturnEarly ==
    /\ pc = "start"
    /\ ~drive_service \/ Len(file_list) = 0
    /\ pc' = "returned"
    /\ UNCHANGED <<drive_service, file_list, remote, list_pos, list_failed,
                   gemini_files_map, idx, file_name, temp_file_path, staging,
                   chunks, pending, uploaded_pdfs, calls>>

BeginListing ==
    /\ pc = "start"
    /\ drive_service /\ Len(file_list) > 0
    /\ pc' = "listing"
    /\ UNCHANGED <<drive_service, file_list, remote, list_pos, list_failed,
                   gemini_files_map, idx, file_name, temp_file_path, staging,
                   chunks, pending, uploaded_pdfs, calls>>

\* one iteration of `for f in gemini_client.files.list()`
ListYield ==
    /\ pc = "listing"
    /\ list_pos < Len(remote)
    /\ list_pos' = list_pos + 1
    /\ gemini_files_map' =
           map_put(gemini_files_map, remote[list_pos + 1], Listed(list_pos + 1))
    /\ UNCHANGED <<pc, drive_service, file_list, remote, list_failed, idx,
                   file_name, temp_file_path, staging, chunks, pending,
                   uploaded_pdfs, calls>>

ListDone ==
    /\ pc = "listing"
    /\ list_pos = Len(remote)
    /\ pc' = "loop"
    /\ UNCHANGED <<drive_service, file_list, remote, list_pos, list_failed,
                   gemini_files_map, idx, file_name, temp_file_path, staging,
                   chunks, pending, uploaded_pdfs, calls>>

\* the call or the iterator raises: except Exception prints and goes on
ListRaise ==
    /\ pc = "listing"
    /\ list_failed' = TRUE
    /\ pc' = "loop"
    /\ UNCHANGED <<drive_service, file_list, remote, list_pos,
                   gemini_files_map, idx, file_name, temp_file_path, staging,
                   chunks, pending, uploaded_pdfs, calls>>

\* for link in file_list: file_id = extract_file_id(link); if not file_id: continue
SkipInvalid ==
    /\ pc = "loop"
    /\ idx < Len(file_list)
    /\ file_id_of(idx + 1) = None
    /\ idx' = idx + 1
    /\ UNCHANGED <<pc, drive_service, file_list, remote, list_pos, list_failed,
                   gemini_files_map, file_name, temp_file_path, staging,
                   chunks, pending, uploaded_pdfs, calls>>

BeginItem ==
    /\ pc = "loop"
    /\ idx < Len(file_list)
    /\ file_id_of(idx + 1) # None
    /\ idx' = idx + 1
    /\ temp_file_path' = NoPath
    /\ pc' = "meta"
    /\ UNCHANGED <<drive_service, file_list, remote, list_pos, list_failed,
                   gemini_files_map, file_name, staging, chunks, pending,
                   uploaded_pdfs, calls>>

\* metadata fetched, no name: continue (through finally)
MetaNoName ==
    /\ pc = "meta"
    /\ \E r \in {None, <<>>} :
          /\ file_name' = r
          /\ calls' = Append(calls, Call("get", idx, r))
    /\ pc' = "finally"
    /\ UNCHANGED <<drive_service, file_list, remote, list_pos, list_failed,
                   gemini_files_map, idx, temp_file_path, staging, chunks,
                   pending, uploaded_pdfs>>

\* the name is in gemini_files_map: the existing file is used
MetaHit ==
    /\ pc = "meta"
    /\ \E n \in DisplayNames :
          /\ in_map(n, gemini_files_map)
          /\ file_name' = n
          /\ calls' = Append(calls, Call("get", idx, n))
          /\ uploaded_pdfs' =
                 Append(uploaded_pdfs, FileRecord(idx, n, gemini_files_map[n]))
    /\ pc' = "finally"
    /\ UNCHANGED <<drive_service, file_list, remote, list_pos, list_failed,
                   gemini_files_map, idx, temp_file_path, staging, chunks,
                   pending>>

\* the name is not in the map: the temporary file is created
MetaMiss ==
    /\ pc = "meta"
    /\ \E n \in DisplayNames :
          /\ ~in_map(n, gemini_files_map)
          /\ file_name' = n
          /\ calls' = Append(calls, Call("get", idx, n))
    /\ temp_file_path' = idx
    /\ staging' = staging \cup {idx}
    /\ chunks' = 0
    /\ pc' = "download"
    /\ UNCHANGED <<drive_service, file_list, remote, list_pos, list_failed,
                   gemini_files_map, idx, pending, uploaded_pdfs>>

\* files().get(...).execute() raises
MetaRaise ==
    /\ pc = "meta"
    /\ calls' = Append(calls, Call("get", idx, Failed))
    /\ pending' = handler_raises(file_name)
    /\ pc' = "finally"
    /\ UNCHANGED <<drive_service, file_list, remote, list_pos, list_failed,
                   gemini_files_map, idx, file_name, temp_file_path, staging,
                   chunks, uploaded_pdfs>>

\* downloader.next_chunk() returns done = False
DownloadChunk ==
    /\ pc = "download"
    /\ chunks < MaxChunks
    /\ chunks' = chunks + 1
    /\ UNCHANGED <<pc, drive_service, file_list, remote, list_pos, list_failed,
                   gemini_files_map, idx, file_name, temp_file_path, staging,
                   pending, uploaded_pdfs, calls>>

\* downloader.next_chunk() returns done = True
DownloadDone ==
    /\ pc = "download"
    /\ calls' = Append(calls, Call("download", idx, Ok))
    /\ chunks' = 0
    /\ pc' = "upload"
    /\ UNCHANGED <<drive_service, file_list, remote, list_pos, list_failed,
                   gemini_files_map, idx, file_name, temp_file_path, staging,
                   pending, uploaded_pdfs>>

DownloadRaise ==
    /\ pc = "download"
    /\ calls' = Append(calls, Call("download", idx, Failed))
    /\ chunks' = 0
    /\ pending' = handler_raises(file_name)
    /\ pc' = "finally"
    /\ UNCHANGED <<drive_service, file_list, remote, list_pos, list_failed,
                   gemini_files_map, idx, file_name, temp_file_path, staging,
                   uploaded_pdfs>>

\* gemini_client.files.upload(...) returns; time.sleep(1); append
UploadOk ==
    /\ pc = "upload"
    /\ calls' = Append(calls, Call("upload", idx, Ok))
    /\ uploaded_pdfs' =
           Append(uploaded_pdfs, FileRecord(idx, file_name, Uploaded(idx)))
    /\ gemini_files_map' =
           index_after_upload(gemini_files_map, file_name, Uploaded(idx))
    /\ pc' = "finally"
    /\ UNCHANGED <<drive_service, file_list, remote, list_pos, list_failed,
                   idx, file_name, temp_file_path, staging, chunks, pending>>

UploadRaise ==
    /\ pc = "upload"
    /\ calls' = Append(calls, Call("upload", idx, Failed))
    /\ pending' = handler_raises(file_name)
    /\ pc' = "finally"
    /\ UNCHANGED <<drive_service, file_list, remote, list_pos, list_failed,
                   gemini_files_map, idx, file_name, temp_file_path, staging,
                   chunks, uploaded_pdfs>>

\* the finally clause; then the next link, or the pending exception leaves
\* the function
Finally ==
    /\ pc = "finally"
    /\ staging' = cleanup(staging, temp_file_path)
    /\ pc' = IF pending THEN "raised" ELSE "loop"
    /\ UNCHANGED <<drive_service, file_list, remote, list_pos, list_failed,
                   gemini_files_map, idx, file_name, temp_file_path, chunks,
                   pending, uploaded_pdfs, calls>>

\* return uploaded_pdfs
Return ==
    /\ pc = "loop"
    /\ idx = Len(file_list)
    /\ pc' = "returned"
    /\ UNCHANGED <<drive_service, file_list, remote, list_pos, list_failed,
                   gemini_files_map, idx, file_name, temp_file_path, staging,
                   chunks, pending, uploaded_pdfs, calls>>

\* ------------------------------------------------------------ analyze_pdfs
SleepAfterCall == 1
Backoff == 5
NoAnalysis == <<"N","o"," ","a","n","a","l","y","s","i","s"," ",
                "a","v","a","i","l","a","b","l","e",".">>

\* what result.text can be: None, empty, whitespace only, or with content
AnalysisTexts == { None, <<>>, <<" ">>, <<"x">>, <<" ","x"," ">> }

\* google.api_core.exceptions caught by the first except clause
ApiErrors == { <<"GoogleAPICallError">>, <<"ResourceExhausted">> }

\* records analyze_pdfs is given
AnRecords == {
    [file_id |-> <<"a">>, file_name |-> <<"a">>, student_name |-> <<"a">>,
     gemini_file |-> Listed(1)],
    [file_id |-> <<"Z">>, file_name |-> <<"1">>, student_name |-> UnknownStudent,
     gemini_file |-> Uploaded(1)] }

\* result.text.strip() if result.text else "No analysis available."
analysis_text(text) ==
    IF text = None \/ text = <<>> THEN NoAnalysis ELSE strip(text)

AnalysisResult(up, text) ==
    [file_name |-> up.file_name, file_id |-> up.file_id,
     student_name |-> up.student_name, analysis |-> analysis_text(text)]

\* mutant: no delay after an API error
backoff_delay_none(e) == 0

\* time.sleep(5) in the first except clause, nothing in the second
backoff_delay(e) == IF e \in ApiErrors THEN Backoff ELSE 0

Submit(i, res) == [op |-> "submit", item |-> i, res |-> res]
Sleep(i, secs) == [op |-> "sleep", item |-> i, secs |-> secs]

InitAnalyze ==
    /\ an_pc = "loop"
    /\ an_in \in SeqsUpTo(AnRecords, MaxRecs)
    /\ an_i = 0
    /\ all_responses = <<>>
    /\ an_log = <<>>
    /\ saved = FALSE

\* generate_content returns: append the result, time.sleep(1)
AnalyzeOk ==
    /\ an_pc = "loop"
    /\ an_i < Len(an_in)
    /\ an_i' = an_i + 1
    /\ \E text \in AnalysisTexts :
          all_responses' =
              Append(all_responses, AnalysisResult(an_in[an_i + 1], text))
    /\ an_log' = an_log \o <<Submit(an_i + 1, Ok), Sleep(an_i + 1, SleepAfterCall)>>
    /\ UNCHANGED <<an_pc, an_in, saved>>

\* generate_content raises: the item is skipped
AnalyzeRaise ==
    /\ an_pc = "loop"
    /\ an_i < Len(an_in)
    /\ an_i' = an_i + 1
    /\ \E e \in ApiErrors \cup {OtherError} :
          an_log' = an_log \o <<Submit(an_i + 1, e)>> \o
                    (IF backoff_delay(e) > 0
                     THEN <<Sleep(an_i + 1, backoff_delay(e))>> ELSE <<>>)
    /\ UNCHANGED <<an_pc, an_in, all_responses, saved>>

\* json.dump to responses.json, then return all_responses
SaveOk ==
    /\ an_pc = "loop"
    /\ an_i = Len(an_in)
    /\ saved' = TRUE
    /\ an_pc' = "returned"
    /\ UNCHANGED <<an_in, an_i, all_responses, an_log>>

\* open or json.dump raises IOError: printed, all_responses still returned
SaveIOError ==
    /\ an_pc = "loop"
    /\ an_i = Len(an_in)
    /\ an_pc' = "returned"
    /\ UNCHANGED <<an_in, an_i, all_responses, an_log, saved>>

\* ---------------------------------------- the pure functions on their own
InitName ==
    /\ nm_pc = "start"
    /\ nm_text \in NameInputs
    /\ nm_out = None
    /\ nm_again = None

\* extract_student_name(text)
ResolveName ==
    /\ nm_pc = "start"
    /\ nm_out' = extract_student_name(nm_text)
    /\ nm_pc' = "resolved"
    /\ UNCHANGED <<nm_text, nm_again>>

\* extract_student_name applied to its own result
ResolveAgain ==
    /\ nm_pc = "resolved"
    /\ nm_out # None
    /\ nm_again' = extract_student_name(nm_out)
    /\ nm_pc' = "again"
    /\ UNCHANGED <<nm_text, nm_out>>

InitId ==
    /\ id_pc = "start"
    /\ id_link \in LinkInputs
    /\ id_out = None

\* extract_file_id(link)
ExtractId ==
    /\ id_pc = "start"
    /\ id_out' = extract_file_id(id_link)
    /\ id_pc' = "extracted"
    /\ UNCHANGED id_link

\* ------------------------------------------------------- specifications
PlIdle ==
    /\ pc = "idle" /\ drive_service = FALSE /\ file_list = <<>> /\ remote = <<>>
    /\ list_pos = 0 /\ list_failed = FALSE /\ gemini_files_map = EmptyMap
    /\ idx = 0 /\ file_name = Unbound /\ temp_file_path = NoPath
    /\ staging = {} /\ chunks = 0 /\ pending = FALSE
    /\ uploaded_pdfs = <<>> /\ calls = <<>>
AnIdle ==
    /\ an_pc = "idle" /\ an_in = <<>> /\ an_i = 0 /\ all_responses = <<>>
    /\ an_log = <<>> /\ saved = FALSE
NmIdle == nm_pc = "idle" /\ nm_text = <<>> /\ nm_out = None /\ nm_again = None
IdIdle == id_pc = "idle" /\ id_link = <<>> /\ id_out = None

\* process_files_from_list
Init == InitPipeline /\ AnIdle /\ NmIdle /\ IdIdle

Next ==
    \/ ReturnEarly /\ UNCHANGED <<anVars, nmVars, idVars>>
    \/ BeginListing /\ UNCHANGED <<anVars, nmVars, idVars>>
    \/ ListYield /\ UNCHANGED <<anVars, nmVars, idVars>>
    \/ ListDone /\ UNCHANGED <<anVars, nmVars, idVars>>
    \/ ListRaise /\ UNCHANGED <<anVars, nmVars, idVars>>
    \/ SkipInvalid /\ UNCHANGED <<anVars, nmVars, idVars>>
    \/ BeginItem /\ UNCHANGED <<anVars, nmVars, idVars>>
    \/ MetaNoName /\ UNCHANGED <<anVars, nmVars, idVars>>
    \/ MetaHit /\ UNCHANGED <<anVars, nmVars, idVars>>
    \/ MetaMiss /\ UNCHANGED <<anVars, nmVars, idVars>>
    \/ MetaRaise /\ UNCHANGED <<anVars, nmVars, idVars>>
    \/ DownloadChunk /\ UNCHANGED <<anVars, nmVars, idVars>>
    \/ DownloadDone /\ UNCHANGED <<anVars, nmVars, idVars>>
    \/ DownloadRaise /\ UNCHANGED <<anVars, nmVars, idVars>>
    \/ UploadOk /\ UNCHANGED <<anVars, nmVars, idVars>>
    \/ UploadRaise /\ UNCHANGED <<anVars, nmVars, idVars>>
    \/ Finally /\ UNCHANGED <<anVars, nmVars, idVars>>
    \/ Return /\ UNCHANGED <<anVars, nmVars, idVars>>

Spec == Init /\ [][Next]_vars

\* analyze_pdfs
InitAn == InitAnalyze /\ PlIdle /\ NmIdle /\ IdIdle

NextAn ==
    \/ AnalyzeOk /\ UNCHANGED <<plVars, nmVars, idVars>>
    \/ AnalyzeRaise /\ UNCHANGED <<plVars, nmVars, idVars>>
    \/ SaveOk /\ UNCHANGED <<plVars, nmVars, idVars>>
    \/ SaveIOError /\ UNCHANGED <<plVars, nmVars, idVars>>

SpecAnalyze == InitAn /\ [][NextAn]_vars

\* extract_student_name
InitNm == InitName /\ PlIdle /\ AnIdle /\ IdIdle

NextNm ==
    \/ ResolveName /\ UNCHANGED <<plVars, anVars, idVars>>
    \/ ResolveAgain /\ UNCHANGED <<plVars, anVars, idVars>>

SpecName == InitNm /\ [][NextNm]_vars

\* extract_file_id, called on its own and by process_files_from_list
InitIdent ==
    \/ InitId /\ PlIdle /\ AnIdle /\ NmIdle
    \/ Init

NextIdent ==
    \/ ExtractId /\ UNCHANGED <<plVars, anVars, nmVars>>
    \/ Next

SpecId == InitIdent /\ [][NextIdent]_vars

\* ============================================================ properties
\* ---- what the call log says about item i of process_files_from_list
ItemCalls(op, i) ==
    {k \in 1..Len(calls) : calls[k].op = op /\ calls[k].item = i}
ItemCallsOk(op, i) == {k \in ItemCalls(op, i) : calls[k].res = Ok}
\* the metadata fetch of item i returned a non-empty display name
GotName(i) == \E k \in ItemCalls("get", i) : calls[k].res \in DisplayNames
NameOf(i) == calls[CHOOSE k \in ItemCalls("get", i) : TRUE].res
\* the index has been built (the listing ended or raised)
Built == pc \in {"loop", "meta", "download", "upload", "finally", "returned", "raised"}
\* item i has been left: the loop is at its head again, or the function ended
ItemDone(i) == i < idx \/ (i = idx /\ pc \in {"loop", "returned", "raised"})
IsHit(i) == GotName(i) /\ NameOf(i) \in DOMAIN gemini_files_map
IsMiss(i) == GotName(i) /\ NameOf(i) \notin DOMAIN gemini_files_map
\* every step of item i succeeded
Succeeded(i) ==
    \/ IsHit(i)
    \/ IsMiss(i) /\ ItemCallsOk("download", i) # {} /\ ItemCallsOk("upload", i) # {}
\* where the record of a succeeded item i stands in the result
RecPos(i) == Cardinality({j \in 1..i : Succeeded(j)})

\* ---- identifiers as the claims describe them
ClaimShapes == { <<"f","i","l","e","/","d","/">>,
                 <<"o","p","e","n","?","i","d","=">>,
                 <<"u","c","?","i","d","=">> }
ClaimIdChars == Lower \cup Upper \cup Digits \cup {"-", "_"}
ShapeWith(s, p, pre) ==
    /\ p + Len(pre) <= Len(s)
    /\ SubSeq(s, p, p + Len(pre) - 1) = pre
    /\ s[p + Len(pre)] \in ClaimIdChars
ShapeAt(s, p) == \E pre \in ClaimShapes : ShapeWith(s, p, pre)
HasShape(s) == \E p \in 1..Len(s) : ShapeAt(s, p)
ExpectedId(s) ==
    IF HasShape(s)
    THEN LET p == CHOOSE q \in 1..Len(s) :
                      ShapeAt(s, q) /\ \A r \in 1..(q - 1) : ~ShapeAt(s, r)
             pre == CHOOSE x \in ClaimShapes : ShapeWith(s, p, x)
             b == p + Len(pre)
             e == CHOOSE x \in b..Len(s) :
                      /\ \A k \in b..x : s[k] \in ClaimIdChars
                      /\ x = Len(s) \/ s[x + 1] \notin ClaimIdChars
         IN SubSeq(s, b, e)
    ELSE None

\* ---- names as the claims describe them
ClaimDelims == {"_", " ", "-"}
\* the non-empty maximal runs of characters that are not delimiters
RECURSIVE ClaimTokensFrom(_, _)
ClaimTokensFrom(s, cur) ==
    IF Len(s) = 0 THEN (IF cur = <<>> THEN <<>> ELSE <<cur>>)
    ELSE IF s[1] \in ClaimDelims
         THEN (IF cur = <<>> THEN <<>> ELSE <<cur>>) \o ClaimTokensFrom(Tail(s), <<>>)
         ELSE ClaimTokensFrom(Tail(s), Append(cur, s[1]))
ClaimTokens(s) == ClaimTokensFrom(s, <<>>)
RECURSIVE SpaceJoined(_)
SpaceJoined(ts) ==
    IF ts = <<>> THEN <<>>
    ELSE IF Len(ts) = 1 THEN ts[1]
    ELSE ts[1] \o <<" ">> \o SpaceJoined(Tail(ts))
Cleaned(s) == SpaceJoined(ClaimTokens(s))
HasDigit(t) == \E i \in 1..Len(t) : t[i] \in Digits
IsLetter(c) == c \in Lower \cup Upper
\* a token that is alphanumeric and has a digit
IsCode(t) == HasDigit(t) /\ \A i \in 1..Len(t) : IsLetter(t[i]) \/ t[i] \in Digits
NoParen(s) == \A i \in 1..Len(s) : s[i] # ")"
NoDigitToken(s) ==
    \A k \in 1..Len(ClaimTokens(s)) : ~HasDigit(ClaimTokens(s)[k])
Blank(s) == \A i \in 1..Len(s) : s[i] = " "
\* the cleaned string without one leading non-alphabetic character and the
\* space that followed it
CleanedDropped(s) ==
    LET c == Cleaned(s)
    IN IF c = <<>> \/ IsLetter(c[1]) THEN c
       ELSE IF Len(c) >= 2 /\ c[2] = " " THEN SubSeq(c, 3, Len(c))
       ELSE Tail(c)

\* ---- the analyzer's log
SubmitsOf(i) == {k \in 1..Len(an_log) : an_log[k].op = "submit" /\ an_log[k].item = i}
CallOk(i) == \E k \in SubmitsOf(i) : an_log[k].res = Ok
RECURSIVE OkItems(_)
OkItems(n) == IF n = 0 THEN <<>>
              ELSE IF CallOk(n) THEN Append(OkItems(n - 1), n) ELSE OkItems(n - 1)

\* C1: process_files_from_list never raises, whatever fails for whichever
\* item, and returns at most N records, one for every Reference whose steps
\* all succeeded.
C1_NeverRaises ==
    /\ pc # "raised"
    /\ pc = "returned" =>
         /\ Len(uploaded_pdfs) <= Len(file_list)
         /\ \A i \in 1..Len(file_list) :
               (i <= idx /\ Succeeded(i)) =>
                   \E k \in 1..Len(uploaded_pdfs) :
                       /\ uploaded_pdfs[k].file_id = file_id_of(i)
                       /\ uploaded_pdfs[k].file_name = NameOf(i)

\* C2: when the enumeration of the remote store fails, at whatever point,
\* the pipeline goes on with an empty index: every Reference processed
\* afterwards is a miss and is downloaded.
C2_EmptyIndexOnFailure ==
    list_failed =>
        /\ DOMAIN gemini_files_map = {}
        /\ \A i \in 1..idx :
              (GotName(i) /\ ItemDone(i)) => ItemCalls("download", i) # {}

\* C3: an item whose display name is a key of the index causes no download
\* and no upload, and exactly one record is appended for it, holding the
\* handle the index stores under that name.
C3_CacheHit ==
    Built =>
        /\ Len(uploaded_pdfs) = Cardinality({j \in 1..idx : Succeeded(j)})
        /\ \A i \in 1..idx :
              IsHit(i) =>
                  /\ ItemCalls("download", i) = {}
                  /\ ItemCalls("upload", i) = {}
                  /\ Cardinality(ItemCalls("get", i)) = 1
                  /\ RecPos(i) \in 1..Len(uploaded_pdfs)
                  /\ uploaded_pdfs[RecPos(i)].gemini_file = gemini_files_map[NameOf(i)]
                  /\ uploaded_pdfs[RecPos(i)].file_name = NameOf(i)
                  /\ uploaded_pdfs[RecPos(i)].file_id = ExpectedId(file_list[i])

C3_Witness ==
    /\ pc = "returned"
    /\ \E i \in 1..idx : IsHit(i) /\ i < idx
    /\ Len(remote) >= 2 /\ remote[1] = remote[2]

\* C4: after a rate-limit or service-call error no result is appended, the
\* backoff delay (longer than the delay after a success) comes before the
\* next submission, every later record is submitted, and the results are the
\* records whose call succeeded, in input order.
C4_Backoff ==
    /\ Backoff > SleepAfterCall
    /\ \A k \in 1..Len(an_log) :
          (an_log[k].op = "submit" /\ an_log[k].res \in ApiErrors) =>
              /\ k + 1 <= Len(an_log)
              /\ an_log[k + 1] = Sleep(an_log[k].item, Backoff)
              /\ k + 2 <= Len(an_log) =>
                    /\ an_log[k + 2].op = "submit"
                    /\ an_log[k + 2].item = an_log[k].item + 1
    /\ \A i \in 1..an_i : Cardinality(SubmitsOf(i)) = 1
    /\ an_pc = "returned" => an_i = Len(an_in)
    /\ Len(all_responses) = Len(OkItems(an_i))
    /\ \A k \in 1..Len(all_responses) :
          LET up == an_in[OkItems(an_i)[k]]
          IN /\ all_responses[k].file_id = up.file_id
             /\ all_responses[k].file_name = up.file_name
             /\ all_responses[k].student_name = up.student_name

C4_Witness ==
    /\ an_pc = "returned"
    /\ \E i \in 1..Len(an_in) :
          /\ \E k \in SubmitsOf(i) : an_log[k].res \in ApiErrors
          /\ i < Len(an_in) /\ CallOk(i + 1)
          /\ i > 1 /\ CallOk(i - 1)

\* C5: a staging file never outlives the item it was created for: none
\* exists when an item starts, nor when the function returns or raises.
C5_StagingScoped ==
    /\ staging \subseteq {idx}
    /\ pc \in {"start", "listing", "loop", "meta", "returned", "raised"} => staging = {}

C5_Witness ==
    /\ pc = "meta"
    /\ \E k \in 1..Len(calls) :
          /\ calls[k].op \in {"download", "upload"}
          /\ calls[k].res = Failed
          /\ calls[k].item < idx

\* C6 as stated: with no `)` and no token that has a digit, the result is
\* the cleaned string and never None, unless the input is empty or only
\* whitespace, and then it is None.
C6_CleanedOrNone ==
    (nm_pc \in {"resolved", "again"} /\ NoParen(nm_text) /\ NoDigitToken(nm_text)) =>
        IF Blank(nm_text) THEN nm_out = None
        ELSE nm_out = Cleaned(nm_text) /\ nm_out # None

\* C6 amended: with no `)` and no token that has a digit, the result is the
\* cleaned string without one leading non-alphabetic character (and the
\* space after it), and None exactly when that is empty.
C6_CleanedDropped ==
    (nm_pc \in {"resolved", "again"} /\ NoParen(nm_text) /\ NoDigitToken(nm_text)) =>
        IF CleanedDropped(nm_text) = <<>> THEN nm_out = None
        ELSE nm_out = CleanedDropped(nm_text)

C6_Witness ==
    /\ nm_pc = "resolved"
    /\ NoParen(nm_text) /\ NoDigitToken(nm_text)
    /\ Len(ClaimTokens(nm_text)) >= 2
    /\ ~IsLetter(Cleaned(nm_text)[1])
    /\ nm_out # None /\ nm_out # Cleaned(nm_text)

C8_LeftmostId ==
    /\ id_pc = "extracted" => id_out = ExpectedId(id_link)
    /\ \A i \in 1..idx :
          /\ file_id_of(i) = ExpectedId(file_list[i])
          /\ ExpectedId(file_list[i]) = None =>
                /\ \A k \in 1..Len(calls) : calls[k].item # i
                /\ i = idx => pc \in {"loop", "returned"}

C8_Witness ==
    /\ id_pc = "extracted"
    /\ id_out # None
    /\ \E p, q \in 1..Len(id_link) :
          /\ p < q /\ ShapeAt(id_link, p) /\ ShapeAt(id_link, q)
          /\ id_out # SubSeq(id_link, q, Len(id_link))

\* C9: the analysis field of every result is non-empty: the trimmed text,
\* or the sentinel.
C9_AnalysisNonEmpty ==
    \A k \in 1..Len(all_responses) : all_responses[k].analysis # <<>>

\* C10 as stated: the index is what the listing gave, never changed by an
\* upload, and every item that misses it gets exactly one download and one
\* upload attempt.
C10_OneDownloadOneUpload ==
    Built =>
        /\ DOMAIN gemini_files_map = {remote[k] : k \in 1..list_pos}
        /\ \A n \in DOMAIN gemini_files_map : gemini_files_map[n].kind = "listed"
        /\ \A i \in 1..idx :
              (IsMiss(i) /\ ItemDone(i)) =>
                  /\ Cardinality(ItemCalls("download", i)) = 1
                  /\ Cardinality(ItemCalls("upload", i)) = 1

\* C10 amended: the index is what the listing gave, never changed by an
\* upload, and every item that misses it gets exactly one download attempt
\* and, when the download completes, exactly one upload attempt.
C10_DownloadThenUpload ==
    Built =>
        /\ DOMAIN gemini_files_map = {remote[k] : k \in 1..list_pos}
        /\ \A n \in DOMAIN gemini_files_map : gemini_files_map[n].kind = "listed"
        /\ \A i \in 1..idx :
              (IsMiss(i) /\ ItemDone(i)) =>
                  /\ Cardinality(ItemCalls("download", i)) = 1
                  /\ Cardinality(ItemCalls("upload", i)) =
                         (IF ItemCallsOk("download", i) # {} THEN 1 ELSE 0)

C10_Witness ==
    /\ pc = "returned"
    /\ \E i, j \in 1..idx :
          /\ i < j
          /\ IsMiss(i) /\ IsMiss(j) /\ NameOf(i) = NameOf(j)
          /\ ItemCallsOk("upload", i) # {} /\ ItemCallsOk("upload", j) # {}

====
